---------------------------- MODULE Spec2Model ----------------------------
(***************************************************************************)
(* A model of buzz_sync.py: the one-directional synchronisation of         *)
(* secondary Real-Debrid accounts with a primary account.                  *)
(*                                                                         *)
(* The state machines that share the module:                               *)
(*   - retry_api_call, the retry loop with exponential backoff             *)
(*     (SpecRetry, SpecRetryFair);                                         *)
(*   - the enumeration of an account under pagination, on accounts large   *)
(*     enough to span several pages (SpecEnum), also while the owner of    *)
(*     the account deletes torrents (SpecStale);                           *)
(*   - sync_accounts, a whole run on small accounts (Spec, SpecFair), the  *)
(*     run that follows it (SpecRuns), a run over two secondaries          *)
(*     (SpecTwo), a run on accounts with several torrents of one hash      *)
(*     (SpecDup), and two runs started concurrently (SpecConcurrent).      *)
(***************************************************************************)
EXTENDS Integers, Sequences, FiniteSets, TLC

VARIABLES
    \* ---- retry_api_call ----
    retries,             \* parameter retries
    attempt,             \* iterations of the for loop completed
    backoff_in_seconds,  \* parameter / local backoff_in_seconds
    retry_pc,            \* "idle", "call", "sleep", "returned", "raised", "exhausted"
    sleeps,              \* the delays passed to asyncio.sleep, in order
    calls,               \* how many times func was awaited
    retry_result,        \* what retry_api_call handed to its caller
    \* ---- the remote service ----
    accounts,            \* api key -> the account's torrents, in listing order
    created,             \* api key -> hash -> torrents ever created with that hash
    \* ---- configuration ----
    dry_run,             \* '--dry-run' in sys.argv
    secondary_api_keys,  \* RD_SECONDARY_API_KEYS, split
    \* ---- sync_accounts and the coroutines it awaits ----
    pc,                  \* where sync_accounts stands
    total_pages,         \* get_all_torrent_hashes_and_files: total_pages
    page_results,        \* the page tasks handed to asyncio.gather, and their results
    primary_torrents,    \* list of (torrent_hash, file_ids)
    key_index,           \* position of api_key in secondary_api_keys
    page,                \* fetch_existing_torrents: page
    torrents,            \* fetch_existing_torrents: torrents
    secondary_existing_torrents,
    all_tasks,           \* update_tasks + delete_tasks, each with its progress
    \* ---- history, read by the properties only ----
    page_requests,       \* api key -> the list pages requested in this run
    fault,               \* api key -> the request of its enumeration that failed
    ops_ok,              \* every corrective request of this run succeeded
    run,                 \* 1 for the first run, 2 for the run that follows it
    prev,                \* how the previous run went
    \* ---- a second process started by start_sync while the first runs ----
    suspended            \* the state of the run that is not taking the step

retryVars == <<retries, attempt, backoff_in_seconds, retry_pc, sleeps, calls, retry_result>>

remoteVars == <<accounts, created>>

configVars == <<dry_run, secondary_api_keys>>

enumVars == <<total_pages, page_results, primary_torrents, page, torrents,
              secondary_existing_torrents, page_requests, fault>>

syncVars == <<pc, key_index, all_tasks, ops_ok, run, prev>>

mainVars == <<remoteVars, configVars, enumVars, syncVars, suspended>>

vars == <<retryVars, mainVars>>

-----------------------------------------------------------------------------
(* Bounds and program constants *)

\* largest value of the retries parameter the model draws
MaxRetries == 8

\* retries=5, the default of retry_api_call
DefaultRetries == 5

\* backoff_in_seconds=1, the default of retry_api_call
DefaultBackoff == 1

\* min(backoff_in_seconds * 2, 60)
BackoffCap == 60

Min(a, b) == IF a <= b THEN a ELSE b

RECURSIVE SumSeq(_)
SumSeq(s) == IF s = <<>> THEN 0 ELSE s[1] + SumSeq(Tail(s))

-----------------------------------------------------------------------------
(* retry_api_call *)

\* what one await of func can do: return a value, raise aiohttp.ClientError
\* (caught by the loop), or raise anything else (not caught)
FuncOutcomes == {"returns", "ClientError", "OtherError"}

NoResult == [kind |-> "pending", attempt |-> 0]

ReturnedNone == [kind |-> "None", attempt |-> 0]

NextBackoffNoDoubling(b) == Min(b + 1, BackoffCap)

\* backoff_in_seconds = min(backoff_in_seconds * 2, 60)
NextBackoff(b) == Min(b * 2, BackoffCap)

LoopContinuesOffByOne(done, r) == done <= r

\* for attempt in range(retries): another iteration follows `done` iterations
LoopContinues(done, r) == done < r

\* the run and the remote service while only retry_api_call is exercised
MainIdle ==
    /\ accounts = <<>>
    /\ created = <<>>
    /\ dry_run = FALSE
    /\ secondary_api_keys = <<>>
    /\ pc = "idle"
    /\ total_pages = 0
    /\ page_results = <<>>
    /\ primary_torrents = <<>>
    /\ key_index = 0
    /\ page = 0
    /\ torrents = <<>>
    /\ secondary_existing_torrents = <<>>
    /\ all_tasks = <<>>
    /\ page_requests = <<>>
    /\ fault = <<>>
    /\ ops_ok = TRUE
    /\ run = 0
    /\ prev = <<>>
    /\ suspended = <<>>

\* retry_api_call while the run is exercised: no caller in the repository
RetryIdle ==
    /\ retries = 0
    /\ attempt = 0
    /\ backoff_in_seconds = 0
    /\ retry_pc = "idle"
    /\ sleeps = <<>>
    /\ calls = 0
    /\ retry_result = NoResult

InitRetry ==
    /\ MainIdle
    /\ retries \in 0..MaxRetries
    /\ attempt = 0
    /\ backoff_in_seconds = DefaultBackoff
    /\ sleeps = <<>>
    /\ calls = 0
    /\ IF LoopContinues(0, retries)
         THEN retry_pc = "call" /\ retry_result = NoResult
         ELSE retry_pc = "exhausted" /\ retry_result = ReturnedNone

\* return await func(*args, **kwargs), with its three outcomes
RetryCall(o) ==
    /\ retry_pc = "call"
    /\ calls' = calls + 1
    /\ CASE o = "returns" ->
              /\ retry_pc' = "returned"
              /\ retry_result' = [kind |-> "value", attempt |-> attempt + 1]
         [] o = "ClientError" ->
              /\ retry_pc' = "sleep"
              /\ retry_result' = retry_result
         [] o = "OtherError" ->
              /\ retry_pc' = "raised"
              /\ retry_result' = [kind |-> "raise", attempt |-> attempt + 1]
    /\ UNCHANGED <<retries, attempt, backoff_in_seconds, sleeps, mainVars>>

\* the except branch: sleep, double the backoff, then the next iteration or,
\* the range exhausted, logger.critical and return None
RetrySleep ==
    /\ retry_pc = "sleep"
    /\ sleeps' = Append(sleeps, backoff_in_seconds)
    /\ backoff_in_seconds' = NextBackoff(backoff_in_seconds)
    /\ attempt' = attempt + 1
    /\ IF LoopContinues(attempt + 1, retries)
         THEN retry_pc' = "call" /\ retry_result' = retry_result
         ELSE retry_pc' = "exhausted" /\ retry_result' = ReturnedNone
    /\ UNCHANGED <<retries, calls, mainVars>>

RetryDone == retry_pc \in {"returned", "raised", "exhausted"}

NextRetry ==
    \/ \E o \in FuncOutcomes : RetryCall(o)
    \/ RetrySleep

SpecRetry == InitRetry /\ [][NextRetry]_vars

\* the event loop resumes the coroutine after every await that completes
SpecRetryFair == SpecRetry /\ WF_vars(NextRetry)

-----------------------------------------------------------------------------
(* The remote service, as the requests of buzz_sync.py see it *)

\* largest number of torrents of an account in the pagination model
MaxItems == 120

\* number of distinct hashes in the model of a run
NumHashes == 2

\* limit=50 in the list URL, and the 50 of total_pages and of the short page test
PageSize == 50

Hashes == 1..NumHashes

\* the selections a torrent of the initial state may have; a torrent just added
\* by addMagnet has no file selected yet
Selections == {{1}, {1, 2}}

primary_api_key == "P"

\* the id the service gives the k-th torrent created with hash h in an account
IdOf(h, k) == (k - 1) * NumHashes + h

SeqRange(s) == {s[i] : i \in DOMAIN s}

\* GET /torrents?limit=50&page={page}: the page-th slice of the listing
ListPage(listing, p) ==
    SubSeq(listing, (p - 1) * PageSize + 1, Min(p * PageSize, Len(listing)))

\* one entry of the list response: the fields the code reads, 'id' and 'hash'
Summary(item) == [id |-> item.id, hash |-> item.hash]

Summaries(items) == [i \in DOMAIN items |-> Summary(items[i])]

AddItemOnce(listing, item) ==
    IF \E i \in DOMAIN listing : listing[i].hash = item.hash
      THEN listing
      ELSE LET Before(x) == x.id < item.id
               After(x) == x.id > item.id
           IN  SelectSeq(listing, Before) \o <<item>> \o SelectSeq(listing, After)

\* POST /torrents/addMagnet answered 201: the service lists the new torrent,
\* whether or not the account holds a torrent of that hash already
RECURSIVE AddItem(_, _)
AddItem(listing, item) ==
    IF listing = <<>> \/ item.id < listing[1].id
      THEN <<item>> \o listing
      ELSE <<listing[1]>> \o AddItem(Tail(listing), item)

\* POST /torrents/selectFiles/{id} answered 204 or 202
SetSelection(listing, id, file_ids) ==
    [i \in DOMAIN listing |->
        IF listing[i].id = id THEN [listing[i] EXCEPT !.sel = file_ids] ELSE listing[i]]

\* DELETE /torrents/delete/{id} answered 204
RemoveItem(listing, id) ==
    LET Keep(item) == item.id # id IN SelectSeq(listing, Keep)

HasId(listing, id) == \E i \in DOMAIN listing : listing[i].id = id

-----------------------------------------------------------------------------
(* get_torrent_hashes_and_files_page and get_all_torrent_hashes_and_files *)

\* the one request of an enumeration that failed, if any: the initial list
\* request, the list request of a page, or the info request of a torrent, by a
\* status other than 200 or by an aiohttp.ClientError
NoFault == [kind |-> "none", page |-> 0, id |-> 0]

PageFaults(listing, p) ==
    LET items == ListPage(listing, p)
    IN  {NoFault}
          \cup {[kind |-> k, page |-> p, id |-> 0] : k \in {"page_status", "page_exc"}}
          \cup {[kind |-> k, page |-> p, id |-> items[i].id] :
                  k \in {"detail_status", "detail_exc"}, i \in DOMAIN items}

TotalPagesFloor(total_torrents) == total_torrents \div PageSize

\* total_pages = (total_torrents // 50) + 1
TotalPages(total_torrents) == (total_torrents \div PageSize) + 1

\* what get_torrent_hashes_and_files_page returns for page p under fault f:
\* [] when the list request fails or any request raises ClientError; else one
\* (hash, selected_files) per torrent whose info request answered 200
PageTorrents(listing, p, f) ==
    IF f.page = p /\ f.kind \in {"page_status", "page_exc", "detail_exc"}
      THEN <<>>
      ELSE LET items == ListPage(listing, p)
               Fetched(item) == ~(f.kind = "detail_status" /\ f.id = item.id)
               kept == SelectSeq(items, Fetched)
           IN  [i \in DOMAIN kept |-> <<kept[i].hash, kept[i].sel>>]

\* the list pages requested so far, kept in the order of the page numbers (the
\* page tasks run concurrently; the order of their requests is not recorded)
RECURSIVE Requested(_, _)
Requested(pages, p) ==
    IF pages = <<>> \/ p <= pages[1]
      THEN <<p>> \o pages
      ELSE <<pages[1]>> \o Requested(Tail(pages), p)

RECURSIVE Extend(_, _)
\* for result in results: if result: torrents.extend(result)
Extend(results, n) ==
    IF n = 0 THEN <<>> ELSE Extend(results, n - 1) \o results[n].torrents

\* fetch_existing_torrents is entered for the key at position k
EnterFetchExisting(k) ==
    /\ key_index' = k
    /\ page' = 1
    /\ torrents' = <<>>
    /\ pc' = IF k <= Len(secondary_api_keys) THEN "fetch_existing" ELSE "finished"

\* lines 120-132: the initial request, which only reads X-Total-Count
get_all_torrent_hashes_and_files(o) ==
    /\ pc = "primary_init"
    /\ page_requests' = [page_requests EXCEPT ![primary_api_key] = Requested(@, 1)]
    /\ IF o = "ok"
         THEN /\ total_pages' = TotalPages(Len(accounts[primary_api_key]))
              /\ page_results' = [p \in 1..TotalPages(Len(accounts[primary_api_key])) |->
                                    [done |-> FALSE, torrents |-> <<>>]]
              /\ pc' = "primary_pages"
              /\ UNCHANGED <<fault, primary_torrents, key_index, page, torrents>>
         ELSE \* return []: the run goes on with an empty primary
              /\ fault' = [fault EXCEPT ![primary_api_key] =
                             [kind |-> IF o = "status" THEN "init_status" ELSE "init_exc",
                              page |-> 1, id |-> 0]]
              /\ primary_torrents' = <<>>
              /\ EnterFetchExisting(1)
              /\ UNCHANGED <<total_pages, page_results>>
    /\ UNCHANGED <<retryVars, suspended, remoteVars, configVars, secondary_existing_torrents,
                   all_tasks, ops_ok, run, prev>>

\* one task of line 134 runs: the list request of page p and the info request
\* of each of its torrents. The requests only read the account, so the task
\* is taken as one step; the tasks run in any order
get_torrent_hashes_and_files_page(p, f) ==
    /\ pc = "primary_pages"
    /\ ~page_results[p].done
    /\ f # NoFault => fault[primary_api_key] = NoFault
    /\ page_results' = [page_results EXCEPT ![p] =
            [done |-> TRUE, torrents |-> PageTorrents(accounts[primary_api_key], p, f)]]
    /\ page_requests' = [page_requests EXCEPT ![primary_api_key] = Requested(@, p)]
    /\ fault' = IF f = NoFault THEN fault ELSE [fault EXCEPT ![primary_api_key] = f]
    /\ UNCHANGED <<retryVars, suspended, remoteVars, configVars, total_pages, primary_torrents,
                   page, torrents, secondary_existing_torrents, syncVars>>

\* lines 135-139 and 275-278: gather returns, the results are concatenated, and
\* sync_accounts enters its loop over the secondary keys
gather_pages ==
    /\ pc = "primary_pages"
    /\ \A p \in DOMAIN page_results : page_results[p].done
    /\ primary_torrents' = Extend(page_results, Len(page_results))
    /\ EnterFetchExisting(1)
    /\ UNCHANGED <<retryVars, suspended, remoteVars, configVars, total_pages, page_results,
                   secondary_existing_torrents, page_requests, fault,
                   all_tasks, ops_ok, run, prev>>

-----------------------------------------------------------------------------
(* list_differences and the tasks sync_accounts creates from it *)

list_differences_keeps_common(list1, list2) == <<list1, list2 \ list1>>

\* only_in_list1, only_in_list2
list_differences(list1, list2) == <<list1 \ list2, list2 \ list1>>

\* a coroutine of all_tasks: which function, its arguments (torrent_hash and
\* file_ids, or torrent_id), where it stands, the requests it has sent, how
\* each of them was answered, and what gather collected for it
NewTask(kind, torrent_hash, file_ids, torrent_id) ==
    [kind |-> kind, hash |-> torrent_hash, file_ids |-> file_ids, id |-> torrent_id,
     pc |-> "start", sent |-> <<>>, answers |-> <<>>, result |-> "pending"]

\* primary_hashes = {torrent_hash for torrent_hash, _ in primary_torrents}
HashesOfTorrents(pt) == {pt[i][1] : i \in DOMAIN pt}

\* secondary_hashes = {torrent['hash'] for torrent in secondary_existing_torrents}
HashesOfExisting(existing) == {existing[i].hash : i \in DOMAIN existing}

\* update_tasks: one task per entry of primary_torrents whose hash is to add
UpdateTasks(pt, torrents_to_add) ==
    LET ToAdd(t) == t[1] \in torrents_to_add
        chosen == SelectSeq(pt, ToAdd)
    IN  [i \in DOMAIN chosen |-> NewTask("add_or_update", chosen[i][1], chosen[i][2], 0)]

\* delete_tasks: one task per existing torrent whose hash is to delete
DeleteTasks(existing, torrents_to_delete) ==
    LET ToDelete(t) == t.hash \in torrents_to_delete
        chosen == SelectSeq(existing, ToDelete)
    IN  [i \in DOMAIN chosen |-> NewTask("delete", chosen[i].hash, {}, chosen[i].id)]

\* lines 281-301: all_tasks = update_tasks + delete_tasks
AllTasks(pt, existing) ==
    LET diff == list_differences(HashesOfTorrents(pt), HashesOfExisting(existing))
    IN  UpdateTasks(pt, diff[1]) \o DeleteTasks(existing, diff[2])

-----------------------------------------------------------------------------
(* fetch_existing_torrents, then the diff and the creation of the tasks *)

\* a list request: 200 (or 204), another status, ClientError
ListOutcomes == {"ok", "status", "ClientError"}

\* one turn of the while loop: the list request of `page`. A status other than
\* 200 and 204 returns []; a ClientError is caught nowhere and ends the run;
\* an empty or short page ends the loop, and sync_accounts goes on to line 281
fetch_existing_torrents(o) ==
    /\ pc = "fetch_existing"
    /\ LET api_key == secondary_api_keys[key_index]
           response_json == Summaries(ListPage(accounts[api_key], page))
           failed == [kind |-> IF o = "status" THEN "page_status" ELSE "page_exc",
                      page |-> page, id |-> 0]
       IN  /\ page_requests' = [page_requests EXCEPT ![api_key] = Requested(@, page)]
           /\ fault' = IF o = "ok" THEN fault ELSE [fault EXCEPT ![api_key] = failed]
           /\ CASE o = "ClientError" ->
                     /\ pc' = "crashed"
                     /\ UNCHANGED <<page, torrents, secondary_existing_torrents, all_tasks>>
                [] o = "status" ->
                     /\ secondary_existing_torrents' = <<>>
                     /\ all_tasks' = AllTasks(primary_torrents, <<>>)
                     /\ pc' = "gather"
                     /\ UNCHANGED <<page, torrents>>
                [] o = "ok" /\ response_json = <<>> ->
                     /\ secondary_existing_torrents' = torrents
                     /\ all_tasks' = AllTasks(primary_torrents, torrents)
                     /\ pc' = "gather"
                     /\ UNCHANGED <<page, torrents>>
                [] o = "ok" /\ response_json # <<>> ->
                     /\ torrents' = torrents \o response_json
                     /\ page' = page + 1
                     /\ IF Len(response_json) < PageSize
                          THEN /\ secondary_existing_torrents' = torrents \o response_json
                               /\ all_tasks' = AllTasks(primary_torrents,
                                                        torrents \o response_json)
                               /\ pc' = "gather"
                          ELSE UNCHANGED <<secondary_existing_torrents, all_tasks, pc>>
    /\ UNCHANGED <<retryVars, suspended, remoteVars, configVars, total_pages, page_results,
                   primary_torrents, key_index, ops_ok, run, prev>>

-----------------------------------------------------------------------------
(* The coroutines of all_tasks, interleaved at their awaits *)

\* selectFiles and delete: the status of success, another status, ClientError,
\* or an exception the coroutine does not catch (asyncio.TimeoutError)
RequestOutcomes == {"ok", "status", "ClientError", "OtherError"}

\* addMagnet: 201 with an id, 201 without one (the torrent is created, the code
\* cannot address it), another status, ClientError, an exception not caught
AddOutcomes == {"ok", "no_id", "status", "ClientError", "OtherError"}

GatherRaisesAlways(return_exceptions, o) == o = "OtherError"

\* asyncio.gather: an exception of a task is raised to the caller of gather
\* unless return_exceptions is set, in which case it is the task's result
GatherRaises(return_exceptions, o) == ~return_exceptions /\ o = "OtherError"

\* line 304: gather(*all_tasks, return_exceptions=True); a task that raised
\* ends sync_accounts only if gather raises
AfterTask(o) == IF GatherRaises(TRUE, o) THEN "crashed" ELSE "gather"

\* what gather collects for a coroutine that returns `returned` unless the
\* request answered by o raised an exception it does not catch
Collected(o, returned) == IF o = "OtherError" THEN "Exception" ELSE returned

AddedAnyway(o) == TRUE

\* lines 232-239: the coroutine goes past addMagnet only on a 201 whose body
\* carries an id; else it returns None (or raises)
Added(o) == o = "ok"

Finished(task, result) == [task EXCEPT !.pc = "done", !.result = result]

\* the task sends `request`, which is answered by o
Request(task, request, o) ==
    [task EXCEPT !.sent = Append(@, request), !.answers = Append(@, o)]

SkipsNever(flag) == FALSE

\* if dry_run: ... return None (lines 173-175 and 192-194)
Skips(flag) == flag

\* existing_torrent = next(t for t in existing_torrents if t['hash'] == torrent_hash)
FirstWithHash(existing, h) ==
    existing[CHOOSE i \in DOMAIN existing :
                /\ existing[i].hash = h
                /\ \A j \in 1..(i - 1) : existing[j].hash # h]

SelectionOf(listing, id) ==
    LET i == CHOOSE i \in DOMAIN listing : listing[i].id = id IN listing[i].sel

\* lines 190-239: the dry-run return; for a hash found in existing_torrents the
\* comparison of the selections and the selectFiles that corrects them; else
\* addMagnet, up to the settle delay of line 242
add_or_update_torrent_and_select_files(i, o) ==
    /\ pc = "gather"
    /\ all_tasks[i].kind = "add_or_update"
    /\ all_tasks[i].pc = "start"
    /\ LET task == all_tasks[i]
           api_key == secondary_api_keys[key_index]
           torrent_id == IdOf(task.hash, created[api_key][task.hash] + 1)
           new == [id |-> torrent_id, hash |-> task.hash, sel |-> {}]
       IN  IF Skips(dry_run)
             THEN /\ all_tasks' = [all_tasks EXCEPT ![i] = Finished(task, "None")]
                  /\ UNCHANGED <<accounts, created, ops_ok, pc>>
           ELSE IF task.hash \in HashesOfExisting(secondary_existing_torrents)
             THEN LET existing_torrent_id ==
                          FirstWithHash(secondary_existing_torrents, task.hash).id
                      informed == o \in {"ok", "no_id"}
                                    /\ HasId(accounts[api_key], existing_torrent_id)
                      differ == informed /\
                          SelectionOf(accounts[api_key], existing_torrent_id) # task.file_ids
                  IN  /\ all_tasks' = [all_tasks EXCEPT ![i] =
                             Finished(IF differ
                                        THEN Request(Request(task, "info", o),
                                                     "selectFiles", "ok")
                                        ELSE Request(task, "info", o),
                                      Collected(o, "None"))]
                      /\ accounts' = IF differ
                           THEN [accounts EXCEPT ![api_key] =
                                   SetSelection(@, existing_torrent_id, task.file_ids)]
                           ELSE accounts
                      /\ ops_ok' = (ops_ok /\ informed)
                      /\ pc' = AfterTask(o)
                      /\ UNCHANGED created
           ELSE /\ all_tasks' = [all_tasks EXCEPT ![i] =
                       IF Added(o)
                         THEN [Request(task, "addMagnet", o) EXCEPT !.pc = "settle",
                                                                    !.id = torrent_id]
                         ELSE Finished(Request(task, "addMagnet", o),
                                       Collected(o, "None"))]
                /\ IF o \in {"ok", "no_id"}
                     THEN /\ accounts' = [accounts EXCEPT ![api_key] = AddItem(@, new)]
                          /\ created' = [created EXCEPT ![api_key][task.hash] = @ + 1]
                     ELSE UNCHANGED <<accounts, created>>
                /\ ops_ok' = (ops_ok /\ o = "ok")
                /\ pc' = AfterTask(o)
    /\ UNCHANGED <<retryVars, suspended, configVars, enumVars, key_index, run, prev>>

\* lines 242-253: after the settle delay, selectFiles on the new torrent; the
\* coroutine returns torrent_id whatever the status, None on ClientError (the
\* service answers 204 or 202 only for a torrent it holds)
select_files(i, o) ==
    /\ pc = "gather"
    /\ all_tasks[i].pc = "settle"
    /\ LET task == all_tasks[i]
           api_key == secondary_api_keys[key_index]
       IN  /\ o = "ok" => HasId(accounts[api_key], task.id)
           /\ all_tasks' = [all_tasks EXCEPT ![i] =
                  Finished(Request(task, "selectFiles", o),
                           Collected(o, IF o = "ClientError" THEN "None" ELSE "torrent_id"))]
           /\ accounts' = IF o = "ok"
                THEN [accounts EXCEPT ![api_key] = SetSelection(@, task.id, task.file_ids)]
                ELSE accounts
           /\ ops_ok' = (ops_ok /\ o = "ok")
           /\ pc' = AfterTask(o)
    /\ UNCHANGED <<retryVars, suspended, created, configVars, enumVars, key_index, run, prev>>

\* lines 171-187: the dry-run return, else the DELETE request; torrent_id is
\* returned on 204, None otherwise (the service answers 204 only for a torrent
\* it holds)
delete_torrent(i, o) ==
    /\ pc = "gather"
    /\ all_tasks[i].kind = "delete"
    /\ all_tasks[i].pc = "start"
    /\ LET task == all_tasks[i]
           api_key == secondary_api_keys[key_index]
       IN  IF Skips(dry_run)
             THEN /\ all_tasks' = [all_tasks EXCEPT ![i] = Finished(task, "None")]
                  /\ UNCHANGED <<accounts, ops_ok, pc>>
             ELSE /\ o = "ok" => HasId(accounts[api_key], task.id)
                  /\ all_tasks' = [all_tasks EXCEPT ![i] =
                         Finished(Request(task, "delete", o),
                                  Collected(o, IF o = "ok" THEN "torrent_id" ELSE "None"))]
                  /\ accounts' = IF o = "ok"
                       THEN [accounts EXCEPT ![api_key] = RemoveItem(@, task.id)]
                       ELSE accounts
                  /\ ops_ok' = (ops_ok /\ o = "ok")
                  /\ pc' = AfterTask(o)
    /\ UNCHANGED <<retryVars, suspended, created, configVars, enumVars, key_index, run, prev>>

GatherDoneEarly(tasks) == TRUE

\* await asyncio.gather(*all_tasks, ...): gather returns once every task has
GatherDone(tasks) == \A i \in DOMAIN tasks : tasks[i].pc = "done"

\* lines 304-311 and 278: gather returns once every task has, the results are
\* logged, and the loop takes the next key
gather_tasks ==
    /\ pc = "gather"
    /\ GatherDone(all_tasks)
    /\ EnterFetchExisting(key_index + 1)
    /\ UNCHANGED <<retryVars, suspended, remoteVars, configVars, total_pages, page_results,
                   primary_torrents, secondary_existing_torrents, page_requests, fault,
                   all_tasks, ops_ok, run, prev>>

-----------------------------------------------------------------------------
(* Initial states and specifications *)

\* number of runs started one after the other
MaxRuns == 2

Keys == {primary_api_key} \cup SeqRange(secondary_api_keys)

\* an account of the initial state: per hash no torrent, or one torrent with a
\* selection (c[h] = {} stands for no torrent), listed in the order of the ids
ListingOf(c) ==
    LET all == [h \in Hashes |-> [id |-> IdOf(h, 1), hash |-> h, sel |-> c[h]]]
        Present(item) == item.sel # {}
    IN  SelectSeq(all, Present)

\* an account of n torrents with pairwise distinct hashes
BigListing(n) == [i \in 1..n |-> [id |-> i, hash |-> i, sel |-> {1}]]

\* the previous run: whether there was one, whether it dispatched operations,
\* whether all of them succeeded, whether all its list and info requests did
NoPrev == [finished |-> FALSE, acted |-> FALSE, ops_ok |-> FALSE, enum_ok |-> FALSE]

\* no second process has been started
NoOtherRun == <<>>

\* the state in which sync_accounts is entered (line 269)
EnterSync ==
    /\ pc = "primary_init"
    /\ total_pages = 0
    /\ page_results = <<>>
    /\ primary_torrents = <<>>
    /\ key_index = 0
    /\ page = 0
    /\ torrents = <<>>
    /\ secondary_existing_torrents = <<>>
    /\ all_tasks = <<>>
    /\ page_requests = [k \in Keys |-> <<>>]
    /\ fault = [k \in Keys |-> NoFault]
    /\ ops_ok = TRUE
    /\ suspended = NoOtherRun

Init ==
    /\ RetryIdle
    /\ dry_run \in BOOLEAN
    /\ secondary_api_keys = <<"S1">>
    /\ \E c \in [Keys -> [Hashes -> {{}} \cup Selections]] :
          /\ accounts = [k \in Keys |-> ListingOf(c[k])]
          /\ created = [k \in Keys |-> [h \in Hashes |-> IF c[k][h] = {} THEN 0 ELSE 1]]
    /\ EnterSync
    /\ run = 1
    /\ prev = NoPrev

\* the script is started again after a run has finished (app.py, start_sync)
next_run ==
    /\ pc = "finished"
    /\ run < MaxRuns
    /\ run' = run + 1
    /\ prev' = [finished |-> TRUE,
                acted |-> all_tasks # <<>>,
                ops_ok |-> ops_ok /\ ~dry_run,
                enum_ok |-> \A k \in Keys : fault[k] = NoFault]
    /\ pc' = "primary_init"
    /\ total_pages' = 0
    /\ page_results' = <<>>
    /\ primary_torrents' = <<>>
    /\ key_index' = 0
    /\ page' = 0
    /\ torrents' = <<>>
    /\ secondary_existing_torrents' = <<>>
    /\ all_tasks' = <<>>
    /\ page_requests' = [k \in Keys |-> <<>>]
    /\ fault' = [k \in Keys |-> NoFault]
    /\ ops_ok' = TRUE
    /\ UNCHANGED <<retryVars, suspended, remoteVars, configVars>>

NextEnumerate ==
    \/ \E o \in ListOutcomes : get_all_torrent_hashes_and_files(o)
    \/ /\ pc = "primary_pages"
       /\ \E p \in DOMAIN page_results :
            \E f \in PageFaults(accounts[primary_api_key], p) :
               get_torrent_hashes_and_files_page(p, f)
    \/ gather_pages
    \/ \E o \in ListOutcomes : fetch_existing_torrents(o)

NextReconcile ==
    \/ /\ pc = "gather"
       /\ \E i \in DOMAIN all_tasks : \E o \in AddOutcomes :
            add_or_update_torrent_and_select_files(i, o)
    \/ /\ pc = "gather"
       /\ \E i \in DOMAIN all_tasks : \E o \in RequestOutcomes : select_files(i, o)
    \/ /\ pc = "gather"
       /\ \E i \in DOMAIN all_tasks : \E o \in RequestOutcomes : delete_torrent(i, o)
    \/ gather_tasks

\* one run of sync_accounts
Next == NextEnumerate \/ NextReconcile

Spec == Init /\ [][Next]_vars

\* a run and the runs started after it
NextRuns == Next \/ next_run

SpecRuns == Init /\ [][NextRuns]_vars

\* a run with dry-run off on accounts whose torrents all have the same selection
InitPlain ==
    /\ RetryIdle
    /\ dry_run = FALSE
    /\ secondary_api_keys = <<"S1">>
    /\ \E c \in [Keys -> [Hashes -> {{}, {1}}]] :
          /\ accounts = [k \in Keys |-> ListingOf(c[k])]
          /\ created = [k \in Keys |-> [h \in Hashes |-> IF c[k][h] = {} THEN 0 ELSE 1]]
    /\ EnterSync
    /\ run = 1
    /\ prev = NoPrev

\* the event loop resumes every coroutine whose await has completed
SpecFair == InitPlain /\ [][Next]_vars /\ WF_vars(Next)

\* the enumerations of a run on accounts of up to MaxItems torrents: one of the
\* two accounts holds n torrents, the other none
InitEnum ==
    /\ RetryIdle
    /\ dry_run = FALSE
    /\ secondary_api_keys = <<"S1">>
    /\ \E n \in 0..MaxItems : \E big \in Keys :
          accounts = [k \in Keys |-> IF k = big THEN BigListing(n) ELSE <<>>]
    /\ created = [k \in Keys |-> [h \in Hashes |-> 0]]
    /\ EnterSync
    /\ run = 1
    /\ prev = NoPrev

SpecEnum == InitEnum /\ [][NextEnumerate]_vars

\* the owner of the primary account deletes its last PageSize torrents after
\* the initial request has read X-Total-Count and before a page is requested:
\* the count the run holds is stale from then on
owner_deletes ==
    /\ pc = "primary_pages"
    /\ \A p \in DOMAIN page_results : ~page_results[p].done
    /\ TotalPages(Len(accounts[primary_api_key])) = total_pages
    /\ Len(accounts[primary_api_key]) >= PageSize
    /\ accounts' = [accounts EXCEPT ![primary_api_key] = SubSeq(@, 1, Len(@) - PageSize)]
    /\ UNCHANGED <<retryVars, suspended, created, configVars, enumVars, syncVars>>

NextStale == NextEnumerate \/ owner_deletes

\* the enumerations of a run while the owner of the primary may delete torrents
SpecStale == InitEnum /\ [][NextStale]_vars

\* a run over two secondary accounts, dry-run off; every torrent of the
\* initial state has the same selection, and the second secondary holds at
\* most a torrent of the first hash
InitTwo ==
    /\ RetryIdle
    /\ dry_run = FALSE
    /\ secondary_api_keys = <<"S1", "S2">>
    /\ \E c \in [Keys -> [Hashes -> {{}, {1}}]] :
          /\ \A h \in Hashes \ {1} : c["S2"][h] = {}
          /\ accounts = [k \in Keys |-> ListingOf(c[k])]
          /\ created = [k \in Keys |-> [h \in Hashes |-> IF c[k][h] = {} THEN 0 ELSE 1]]
    /\ EnterSync
    /\ run = 1
    /\ prev = NoPrev

SpecTwo == InitTwo /\ [][Next]_vars

\* largest number of torrents with the same hash an account holds initially
\* (the service creates a torrent per addMagnet, whatever the account holds)
MaxCopies == 2

\* an account holding c[h] torrents of hash h, the k-th of them with id
\* IdOf(h, k); the first copy has one file selected, the others two
CopiesListing(c) ==
    LET HashOfId(n) == ((n - 1) % NumHashes) + 1
        CopyOfId(n) == ((n - 1) \div NumHashes) + 1
        all == [n \in 1..(NumHashes * MaxCopies) |->
                  [id |-> n, hash |-> HashOfId(n),
                   sel |-> IF CopyOfId(n) = 1 THEN {1} ELSE {1, 2}]]
        Present(item) == CopyOfId(item.id) <= c[item.hash]
    IN  SelectSeq(all, Present)

\* a run on accounts that may hold several torrents of one hash, dry-run off
InitDup ==
    /\ RetryIdle
    /\ dry_run = FALSE
    /\ secondary_api_keys = <<"S1">>
    /\ \E c \in [Keys -> [Hashes -> 0..MaxCopies]] :
          /\ accounts = [k \in Keys |-> CopiesListing(c[k])]
          /\ created = c
    /\ EnterSync
    /\ run = 1
    /\ prev = NoPrev

SpecDup == InitDup /\ [][Next]_vars

\* the variables of a process running buzz_sync.py
Locals ==
    [pc |-> pc, total_pages |-> total_pages, page_results |-> page_results,
     primary_torrents |-> primary_torrents, key_index |-> key_index, page |-> page,
     torrents |-> torrents, secondary_existing_torrents |-> secondary_existing_torrents,
     all_tasks |-> all_tasks, page_requests |-> page_requests, fault |-> fault,
     ops_ok |-> ops_ok]

\* two POST /start_sync: each starts `python3 buzz_sync.py` in a thread of its
\* own, so two runs of sync_accounts work on the same accounts. The first
\* holds the variables of the run; the second is suspended at line 269.
\* The primary holds a torrent of the first hash, the secondary that or none
InitConcurrent ==
    /\ RetryIdle
    /\ dry_run = FALSE
    /\ secondary_api_keys = <<"S1">>
    /\ \E c \in [Keys -> [Hashes -> {{}, {1}}]] :
          /\ c[primary_api_key][1] = {1}
          /\ \A k \in Keys : \A h \in Hashes \ {1} : c[k][h] = {}
          /\ accounts = [k \in Keys |-> ListingOf(c[k])]
          /\ created = [k \in Keys |-> [h \in Hashes |-> IF c[k][h] = {} THEN 0 ELSE 1]]
    /\ pc = "primary_init"
    /\ total_pages = 0
    /\ page_results = <<>>
    /\ primary_torrents = <<>>
    /\ key_index = 0
    /\ page = 0
    /\ torrents = <<>>
    /\ secondary_existing_torrents = <<>>
    /\ all_tasks = <<>>
    /\ page_requests = [k \in Keys |-> <<>>]
    /\ fault = [k \in Keys |-> NoFault]
    /\ ops_ok = TRUE
    /\ suspended = Locals
    /\ run = 1
    /\ prev = NoPrev

\* the scheduler of the operating system: the other process takes the next
\* steps; `run` tells which of the two holds the variables of the run
switch ==
    /\ suspended # NoOtherRun
    /\ suspended' = Locals
    /\ pc' = suspended.pc
    /\ total_pages' = suspended.total_pages
    /\ page_results' = suspended.page_results
    /\ primary_torrents' = suspended.primary_torrents
    /\ key_index' = suspended.key_index
    /\ page' = suspended.page
    /\ torrents' = suspended.torrents
    /\ secondary_existing_torrents' = suspended.secondary_existing_torrents
    /\ all_tasks' = suspended.all_tasks
    /\ page_requests' = suspended.page_requests
    /\ fault' = suspended.fault
    /\ ops_ok' = suspended.ops_ok
    /\ run' = 3 - run
    /\ UNCHANGED <<retryVars, remoteVars, configVars, prev>>

NextConcurrent == Next \/ switch

\* two runs started concurrently on the same accounts
SpecConcurrent == InitConcurrent /\ [][NextConcurrent]_vars

-----------------------------------------------------------------------------
(* Properties *)

HashSet(listing) == {listing[i].hash : i \in DOMAIN listing}

\* no request of the enumerations of this run has failed
EnumOk == \A k \in Keys : fault[k] = NoFault

PrimaryEnumerated == pc \in {"fetch_existing", "gather", "finished", "crashed"}

AddTasks == {i \in DOMAIN all_tasks : all_tasks[i].kind = "add_or_update"}

DelTasks == {i \in DOMAIN all_tasks : all_tasks[i].kind = "delete"}

AllDone == \A i \in DOMAIN all_tasks : all_tasks[i].pc = "done"

CeilDiv(n, d) == (n + d - 1) \div d

\* C1: after a run (dry-run off) in which every remote call succeeded, each secondary holds
\* exactly the hashes of the primary and, for each of them, a torrent with the
\* selection the primary has, torrents that existed before the run included.
Convergence ==
    (pc = "finished" /\ ~dry_run /\ ops_ok /\ EnumOk) =>
        \A k \in SeqRange(secondary_api_keys) :
            /\ HashSet(accounts[k]) = HashSet(accounts[primary_api_key])
            /\ \A i \in DOMAIN accounts[k] : \A j \in DOMAIN accounts[primary_api_key] :
                  accounts[k][i].hash = accounts[primary_api_key][j].hash
                     => accounts[k][i].sel = accounts[primary_api_key][j].sel

\* What the run does achieve when every remote call succeeds: the sets of
\* hashes agree, and every torrent the run added has the primary's selection.
ConvergenceOfHashes ==
    (pc = "finished" /\ ~dry_run /\ ops_ok /\ EnumOk) =>
        \A k \in SeqRange(secondary_api_keys) :
            /\ HashSet(accounts[k]) = HashSet(accounts[primary_api_key])
            /\ \A t \in AddTasks : \A j \in DOMAIN accounts[primary_api_key] :
                  all_tasks[t].hash = accounts[primary_api_key][j].hash
                     => /\ HasId(accounts[k], all_tasks[t].id)
                        /\ SelectionOf(accounts[k], all_tasks[t].id)
                              = accounts[primary_api_key][j].sel

\* C2: the hashes an add is dispatched for are the hashes of the primary
\* snapshot that the secondary snapshot lacks; the torrents a delete is
\* dispatched for are the secondary torrents whose hash the primary snapshot
\* lacks; a hash of both snapshots is neither added nor deleted.
DiffDispatch ==
    LET P == HashesOfTorrents(primary_torrents)
        S == HashesOfExisting(secondary_existing_torrents)
    IN  pc = "gather" =>
          /\ {all_tasks[i].hash : i \in AddTasks} = P \ S
          /\ {all_tasks[i].id : i \in DelTasks} =
                {secondary_existing_torrents[j].id :
                    j \in {n \in DOMAIN secondary_existing_torrents :
                              secondary_existing_torrents[n].hash \in S \ P}}
          /\ \A i \in DOMAIN all_tasks : all_tasks[i].hash \notin P \cap S
          /\ {all_tasks[i].hash : i \in AddTasks}
                \cap {all_tasks[i].hash : i \in DelTasks} = {}
          /\ \A i \in AddTasks :
                (~dry_run /\ all_tasks[i].pc # "start")
                   => all_tasks[i].sent[1] = "addMagnet"
          /\ \A i \in DelTasks :
                (~dry_run /\ all_tasks[i].pc = "done")
                   => all_tasks[i].sent = <<"delete">>

\* C2, witness: a gather in which an add and a delete have both been carried out
DiffDispatchWitness ==
    /\ pc = "gather"
    /\ ~dry_run
    /\ AllDone
    /\ \E i \in AddTasks : all_tasks[i].sent = <<"addMagnet", "selectFiles">>
    /\ \E i \in DelTasks : all_tasks[i].result = "torrent_id"

\* C3: for a hash of both snapshots whose selections differ, the run sends
\* selectFiles with the primary's selection to the secondary's torrent; for
\* equal selections it sends none.
UpdateDispatch ==
    (pc = "gather" /\ ~dry_run /\ EnumOk /\ AllDone) =>
        LET api_key == secondary_api_keys[key_index]
        IN  \A e \in DOMAIN secondary_existing_torrents : \A t \in DOMAIN primary_torrents :
              LET torrent == secondary_existing_torrents[e]
                  updated == \E i \in DOMAIN all_tasks :
                                /\ all_tasks[i].hash = torrent.hash
                                /\ \E n \in DOMAIN all_tasks[i].sent :
                                      all_tasks[i].sent[n] = "selectFiles"
              IN  (torrent.hash = primary_torrents[t][1]
                     /\ HasId(accounts[api_key], torrent.id))
                    => (updated <=>
                          SelectionOf(accounts[api_key], torrent.id) # primary_torrents[t][2])

\* C4: after a run whose corrective operations all succeeded, the run that
\* follows dispatches no operation at all (stated for a first run that did
\* dispatch operations and a following run whose own requests all succeed, the
\* case most favourable to the claim).
Idempotence ==
    (run > 1 /\ prev.finished /\ prev.acted /\ prev.ops_ok /\ EnumOk /\ pc = "gather")
        => all_tasks = <<>>

\* The same when, in addition, no request of the enumerations of the two runs
\* has failed.
IdempotenceWithoutFaults ==
    (run > 1 /\ prev.finished /\ prev.ops_ok /\ prev.enum_ok /\ EnumOk /\ pc = "gather")
        => all_tasks = <<>>

\* C5: under dry-run no step changes an account and no task sends a request,
\* and the tasks created are as many as the diff of the snapshots asks for:
\* one add per entry of the primary snapshot whose hash the secondary snapshot
\* lacks, one delete per secondary torrent whose hash the primary snapshot lacks.
DryRunPurity ==
    [][dry_run =>
         /\ accounts' = accounts
         /\ \A i \in DOMAIN all_tasks' : all_tasks'[i].sent = <<>>
         /\ pc' = "gather" =>
              /\ Cardinality({i \in DOMAIN all_tasks' : all_tasks'[i].kind = "add_or_update"})
                   = Cardinality({j \in DOMAIN primary_torrents' :
                        primary_torrents'[j][1]
                           \notin HashesOfExisting(secondary_existing_torrents')})
              /\ Cardinality({i \in DOMAIN all_tasks' : all_tasks'[i].kind = "delete"})
                   = Cardinality({j \in DOMAIN secondary_existing_torrents' :
                        secondary_existing_torrents'[j].hash
                           \notin HashesOfTorrents(primary_torrents')})]_vars

\* C5, witness: a dry run has finished with an add and a delete planned, both
\* skipped
DryRunPurityWitness ==
    /\ dry_run
    /\ pc = "finished"
    /\ AddTasks # {}
    /\ DelTasks # {}
    /\ \A i \in DOMAIN all_tasks : all_tasks[i].result = "None" /\ all_tasks[i].sent = <<>>

\* C6: when no request fails, the snapshot of an account of N torrents with
\* distinct hashes has exactly N entries, one per torrent, with distinct
\* hashes: the primary's from get_all_torrent_hashes_and_files, a secondary's
\* from fetch_existing_torrents.
PaginationExhaustive ==
    /\ (PrimaryEnumerated /\ fault[primary_api_key] = NoFault) =>
          LET listing == accounts[primary_api_key]
          IN  /\ primary_torrents =
                    [i \in DOMAIN listing |-> <<listing[i].hash, listing[i].sel>>]
              /\ Cardinality(HashesOfTorrents(primary_torrents)) = Len(listing)
    /\ (pc = "gather" /\ fault[secondary_api_keys[key_index]] = NoFault) =>
          LET listing == accounts[secondary_api_keys[key_index]]
          IN  /\ secondary_existing_torrents = Summaries(listing)
              /\ Cardinality(HashesOfExisting(secondary_existing_torrents)) = Len(listing)

\* C6, witness: a primary of MaxItems torrents, or a secondary of two full
\* pages, has been enumerated without a failure
PaginationExhaustiveWitness ==
    /\ pc = "gather"
    /\ EnumOk
    /\ \/ Len(primary_torrents) = MaxItems
       \/ Len(secondary_existing_torrents) = 2 * PageSize

\* C7: the enumeration of a primary of N torrents derives ceil(N/50) pages and
\* sends exactly that many list requests, none of them for a page already
\* requested.
PageCount ==
    (PrimaryEnumerated /\ fault[primary_api_key] = NoFault
        /\ Len(accounts[primary_api_key]) >= 1) =>
        LET n == Len(accounts[primary_api_key])
            sent == page_requests[primary_api_key]
        IN  /\ total_pages = CeilDiv(n, PageSize)
            /\ Len(sent) = CeilDiv(n, PageSize)
            /\ \A i, j \in DOMAIN sent : i # j => sent[i] # sent[j]

\* C8: k transient failures followed by a success return the result of attempt
\* k+1 after the sleeps 1, 2, 4, ..., each the double of the one before and at
\* most 60; the four sleeps before a success at the fifth attempt add up to 15.
RetryArithmetic ==
    /\ \A i \in DOMAIN sleeps :
          sleeps[i] = IF i = 1 THEN DefaultBackoff ELSE Min(2 * sleeps[i - 1], BackoffCap)
    /\ retry_pc = "returned" =>
          /\ calls = Len(sleeps) + 1
          /\ retry_result = [kind |-> "value", attempt |-> Len(sleeps) + 1]
    /\ (retry_pc = "returned" /\ Len(sleeps) = DefaultRetries - 1) =>
          /\ sleeps = <<1, 2, 4, 8>>
          /\ SumSeq(sleeps) = 15

\* C8, witness: with the defaults, four failures and a success at the fifth
\* attempt
RetryArithmeticWitness ==
    /\ retries = DefaultRetries
    /\ retry_pc = "returned"
    /\ calls = DefaultRetries
    /\ SumSeq(sleeps) = 15

\* C9: func is never awaited more than `retries` times; when every attempt
\* fails with ClientError it is awaited exactly `retries` times (5 by default)
\* and None is returned; and the loop ends whatever the outcomes are.
RetryExhaustion ==
    /\ [](calls <= retries)
    /\ [](Len(sleeps) = retries => (retry_pc = "exhausted" /\ calls = retries))
    /\ [](retry_pc = "exhausted" => (retry_result = ReturnedNone /\ calls = retries))
    /\ <>RetryDone

\* C9, witness: with the defaults, five failures
RetryExhaustionWitness ==
    /\ retries = DefaultRetries
    /\ retry_pc = "exhausted"
    /\ calls = DefaultRetries
    /\ Len(sleeps) = DefaultRetries

\* C10: when the info request of one torrent fails, the snapshot holds every
\* other torrent of the account, of the same page and of the other pages, and
\* the run goes on.
DetailFailureIsolation ==
    (PrimaryEnumerated /\ fault[primary_api_key].kind \in {"detail_status", "detail_exc"}) =>
        LET listing == accounts[primary_api_key]
            Others(item) == item.id # fault[primary_api_key].id
            others == SelectSeq(listing, Others)
        IN  /\ primary_torrents = [i \in DOMAIN others |-> <<others[i].hash, others[i].sel>>]
            /\ pc # "crashed" \/ fault[secondary_api_keys[1]] # NoFault

\* The same for an info request answered by a status other than 200.
DetailStatusIsolation ==
    (PrimaryEnumerated /\ fault[primary_api_key].kind = "detail_status") =>
        LET listing == accounts[primary_api_key]
            Others(item) == item.id # fault[primary_api_key].id
            others == SelectSeq(listing, Others)
        IN  primary_torrents = [i \in DOMAIN others |-> <<others[i].hash, others[i].sel>>]

\* the requests of task i that failed: by a status, a ClientError the coroutine
\* catches, or an exception it does not catch
Failures(task) ==
    {n \in DOMAIN task.answers : task.answers[n] \in {"status", "ClientError", "OtherError"}}

\* C11: in the batch gathered for a secondary, a task that failed or raised
\* stops no other task: no step of a task changes another task or ends the
\* run, every task of the batch runs to completion, and gather returns only
\* when a result has been collected for each of them.
OperationIsolation ==
    /\ [][pc = "gather" =>
            /\ pc' \in {"gather", "fetch_existing", "finished"}
            /\ \A i \in DOMAIN all_tasks :
                  all_tasks'[i] # all_tasks[i] =>
                     \A j \in DOMAIN all_tasks \ {i} : all_tasks'[j] = all_tasks[j]]_vars
    /\ [](pc = "gather" => <>(pc = "finished"))
    /\ [](pc = "finished" =>
            \A i \in DOMAIN all_tasks :
               /\ all_tasks[i].pc = "done"
               /\ all_tasks[i].result \in {"None", "torrent_id", "Exception"})

\* C11, witness: the batch has been gathered after one task raised, another
\* failed by a status or a ClientError, and the tasks together carried out an
\* add with its selection, or a delete
OperationIsolationWitness ==
    /\ pc = "finished"
    /\ ~dry_run
    /\ \E i, j \in DOMAIN all_tasks :
          /\ i # j
          /\ all_tasks[i].result = "Exception"
          /\ all_tasks[j].result = "torrent_id"
          /\ Failures(all_tasks[j]) = {}

\* the list requests of the secondary at position k have been sent and the
\* batch gathered for it has returned
Reconciled(k) ==
    /\ page_requests[secondary_api_keys[k]] # <<>>
    /\ key_index > k

\* C12: whatever fails while a secondary is processed, its listing or one of
\* its operations, by a status or by an exception of the transport, the run
\* does not end before every secondary of the list has been enumerated and
\* reconciled.
AccountIsolation ==
    (pc \in {"finished", "crashed"} /\ fault[primary_api_key] = NoFault) =>
        \A k \in DOMAIN secondary_api_keys : Reconciled(k)

\* The same for every failure but an aiohttp.ClientError raised by a list
\* request of fetch_existing_torrents.
AccountIsolationButListingError ==
    /\ pc = "finished" => \A k \in DOMAIN secondary_api_keys : Reconciled(k)
    /\ pc = "crashed" => fault[secondary_api_keys[key_index]].kind = "page_exc"

\* request n of the task was sent again later
Reattempted(task, n) ==
    \E m \in DOMAIN task.sent : m > n /\ task.sent[m] = task.sent[n]

\* C13: a request of an operation (addMagnet, selectFiles, delete) that fails
\* by a transient error, an aiohttp.ClientError, is attempted again before the
\* operation reports a failure; a request answered by an error status is
\* attempted once.
RetryPolicy ==
    \A i \in DOMAIN all_tasks :
        (EnumOk /\ all_tasks[i].pc = "done") =>
            \A n \in DOMAIN all_tasks[i].answers :
                /\ all_tasks[i].answers[n] = "ClientError" => Reattempted(all_tasks[i], n)
                /\ all_tasks[i].answers[n] = "status" => ~Reattempted(all_tasks[i], n)

\* What the run does: retry_api_call is never entered, and no task sends a
\* request twice, however the request was answered.
NoRetryAnywhere ==
    /\ retry_pc = "idle" /\ calls = 0 /\ sleeps = <<>>
    /\ \A i \in DOMAIN all_tasks : \A n \in DOMAIN all_tasks[i].sent :
          ~Reattempted(all_tasks[i], n)

\* the add tasks of the batch for hash h
AddsOf(h) == {i \in AddTasks : all_tasks[i].hash = h}

\* C14: the snapshot of the primary that the tasks are created from has at
\* most one entry per hash, also when the account holds several torrents of
\* one hash, and at most one add is dispatched per hash.
SnapshotUnique ==
    (pc = "gather" /\ EnumOk) =>
        /\ \A i, j \in DOMAIN primary_torrents :
              i # j => primary_torrents[i][1] # primary_torrents[j][1]
        /\ \A h \in Hashes : Cardinality(AddsOf(h)) <= 1

\* What the run does: the hashes are compared as sets, and one add is
\* dispatched per entry of the primary's list, duplicates included.
AddPerListEntry ==
    (pc = "gather" /\ EnumOk) =>
        \A h \in Hashes :
            Cardinality(AddsOf(h)) =
                IF h \in HashSet(accounts[primary_api_key])
                     /\ h \notin HashesOfExisting(secondary_existing_torrents)
                  THEN Cardinality({i \in DOMAIN primary_torrents : primary_torrents[i][1] = h})
                  ELSE 0

Count(requests, p) == Cardinality({i \in DOMAIN requests : requests[i] = p})

\* the list request of page p of account k has been answered in this
\* enumeration (the accounts do not change once a page has been answered)
Answered(k, p) ==
    IF k = primary_api_key
      THEN pc = "primary_pages" /\ p \in DOMAIN page_results /\ page_results[p].done
      ELSE pc = "fetch_existing" /\ k = secondary_api_keys[key_index] /\ p < page

\* page p of the listing of account k holds fewer than PageSize torrents
ShortPage(k, p) == Len(ListPage(accounts[k], p)) < PageSize

\* C15: in the enumeration of an account, primary or secondary, no page is
\* requested once a page of a lower number has been answered with fewer than
\* 50 torrents, whatever number of pages the total count implied.
ShortCircuit ==
    [][\A k \in Keys : \A q \in 1..(TotalPages(MaxItems) + 1) :
          Count(page_requests'[k], q) > Count(page_requests[k], q) =>
             ~\E p \in 1..(q - 1) : Answered(k, p) /\ ShortPage(k, p)]_vars

\* the task has sent selectFiles
Selected(task) == \E n \in DOMAIN task.sent : task.sent[n] = "selectFiles"

\* C16: a task sends selectFiles only from the settle delay, which it enters
\* only after its addMagnet was answered by a 201 with an id, and for the
\* torrent of that id; a task whose addMagnet failed or carried no id never
\* sends selectFiles, however the tasks of the batch interleave.
CausalOrder ==
    /\ [][\A i \in DOMAIN all_tasks \cap DOMAIN all_tasks' :
            (Selected(all_tasks'[i]) /\ ~Selected(all_tasks[i])) =>
               /\ all_tasks[i].pc = "settle"
               /\ all_tasks[i].sent = <<"addMagnet">>
               /\ all_tasks[i].answers = <<"ok">>
               /\ \E n \in 1..created[secondary_api_keys[key_index]][all_tasks[i].hash] :
                     all_tasks[i].id = IdOf(all_tasks[i].hash, n)
               /\ all_tasks'[i].id = all_tasks[i].id]_vars
    /\ [](\A i \in AddTasks :
            /\ all_tasks[i].pc = "settle" => all_tasks[i].answers = <<"ok">>
            /\ (all_tasks[i].answers # <<>> /\ all_tasks[i].answers[1] # "ok")
                  => (all_tasks[i].sent = <<"addMagnet">> /\ all_tasks[i].pc = "done"))

\* C16, witness: in one batch a task has added its torrent and selected its
\* files while the addMagnet of another was refused or carried no id
CausalOrderWitness ==
    /\ pc = "gather"
    /\ AllDone
    /\ \E i, j \in AddTasks :
          /\ all_tasks[i].sent = <<"addMagnet", "selectFiles">>
          /\ all_tasks[i].answers = <<"ok", "ok">>
          /\ all_tasks[j].answers \in {<<"status">>, <<"no_id">>}
          /\ all_tasks[j].sent = <<"addMagnet">>

\* a step in which a list or info request is sent to account k
Lists(k) == page_requests'[k] # page_requests[k]

\* a step in which a task of the batch sends a request
Operates ==
    \E i \in DOMAIN all_tasks \cap DOMAIN all_tasks' :
        Len(all_tasks'[i].sent) > Len(all_tasks[i].sent)

\* C17: the primary is enumerated once, before any secondary is contacted;
\* the secondaries are taken one at a time in the order of the list, none
\* being listed before every task gathered for the one before has completed;
\* and the tasks of a secondary are created and run only after its listing
\* has ended.
OrchestrationOrder ==
    [][/\ Lists(primary_api_key) =>
             /\ pc \in {"primary_init", "primary_pages"}
             /\ \A j \in DOMAIN secondary_api_keys :
                   page_requests[secondary_api_keys[j]] = <<>>
       /\ PrimaryEnumerated =>
             /\ PrimaryEnumerated'
             /\ primary_torrents' = primary_torrents
       /\ \A j \in DOMAIN secondary_api_keys :
             Lists(secondary_api_keys[j]) =>
                /\ PrimaryEnumerated
                /\ pc = "fetch_existing" /\ key_index = j
                /\ AllDone
                /\ ~Operates
                /\ \A n \in 1..(j - 1) : Reconciled(n)
                /\ \A n \in (j + 1)..Len(secondary_api_keys) :
                      page_requests[secondary_api_keys[n]] = <<>>
       /\ Operates =>
             /\ pc = "gather"
             /\ page_requests' = page_requests
             /\ secondary_existing_torrents' = secondary_existing_torrents
       /\ all_tasks' # all_tasks =>
             \/ pc = "gather"
             \/ pc = "fetch_existing" /\ pc' = "gather"
       /\ key_index' \in {key_index, key_index + 1}]_vars

\* C17, witness: a run over two secondaries has ended; it deleted a torrent
\* from the first and then added one to the second
OrchestrationOrderWitness ==
    /\ pc = "finished"
    /\ Len(secondary_api_keys) = 2
    /\ key_index = 3
    /\ EnumOk
    /\ \E h \in Hashes :
          created[secondary_api_keys[1]][h] = 1 /\ h \notin HashSet(accounts[secondary_api_keys[1]])
    /\ \E i \in AddTasks : all_tasks[i].result = "torrent_id"

\* the add tasks for hash h, among `tasks`, whose addMagnet created a torrent
Adds(tasks, h) ==
    {i \in DOMAIN tasks :
        /\ tasks[i].kind = "add_or_update"
        /\ tasks[i].hash = h
        /\ tasks[i].answers # <<>>
        /\ tasks[i].answers[1] \in {"ok", "no_id"}}

Holds(listing, h) == {i \in DOMAIN listing : listing[i].hash = h}

\* C18: when each of two concurrent runs has listed the secondary without
\* finding hash h and has then called addMagnet for it with success, the
\* secondary holds two torrents of hash h: the service creates a torrent per
\* call, and neither run looks at the account again.
ReadThenWriteRace ==
    \A h \in Hashes :
        (/\ suspended # NoOtherRun
         /\ Adds(all_tasks, h) # {}
         /\ Adds(suspended.all_tasks, h) # {}
         /\ pc \in {"gather", "finished"}
         /\ suspended.pc \in {"gather", "finished"}) =>
            /\ h \notin HashesOfExisting(secondary_existing_torrents)
            /\ h \notin HashesOfExisting(suspended.secondary_existing_torrents)
            /\ Cardinality(Holds(accounts[secondary_api_keys[1]], h)) >= 2
            /\ created[secondary_api_keys[1]][h] >= 2

\* C18, witness: the secondary held no torrent of hash h; both runs listed it
\* without a failure, both added h and selected its files, and both have
\* ended: the secondary holds exactly two torrents of hash h
ReadThenWriteRaceWitness ==
    /\ suspended # NoOtherRun
    /\ pc = "finished"
    /\ suspended.pc = "finished"
    /\ EnumOk
    /\ \A k \in Keys : suspended.fault[k] = NoFault
    /\ \E h \in Hashes :
          /\ \E i \in Adds(all_tasks, h) : all_tasks[i].answers = <<"ok", "ok">>
          /\ \E i \in Adds(suspended.all_tasks, h) :
                suspended.all_tasks[i].answers = <<"ok", "ok">>
          /\ Cardinality(Holds(accounts[secondary_api_keys[1]], h)) = 2
          /\ created[secondary_api_keys[1]][h] = 2

\* the task has sent the DELETE request
Deleted(task) == \E n \in DOMAIN task.sent : task.sent[n] = "delete"

\* C19: a DELETE is sent for a torrent of a secondary only if the primary
\* account holds no torrent of its hash, also when the enumeration of the
\* primary failed or was incomplete.
DeleteSafety ==
    \A i \in DelTasks :
        Deleted(all_tasks[i]) => all_tasks[i].hash \notin HashSet(accounts[primary_api_key])

\* The same for the runs in which no request of the primary's enumeration
\* failed.
DeleteSafetyWithoutFaults ==
    fault[primary_api_key] = NoFault => DeleteSafety

\* a step in which task i sends addMagnet
SendsAdd(i) ==
    /\ all_tasks[i].sent = <<>>
    /\ all_tasks'[i].sent = <<"addMagnet">>

\* C20: addMagnet is sent for a hash only if the secondary holds no torrent of
\* that hash, also when the listing of the secondary failed on a page and
\* fetch_existing_torrents returned an empty list.
NoDuplicateAdd ==
    [][\A i \in DOMAIN all_tasks \cap DOMAIN all_tasks' :
          SendsAdd(i) =>
             all_tasks[i].hash \notin HashSet(accounts[secondary_api_keys[key_index]])]_vars

\* The same for the runs in which no list request of the secondary failed.
NoDuplicateAddWithoutFaults ==
    [][\A i \in DOMAIN all_tasks \cap DOMAIN all_tasks' :
          (SendsAdd(i) /\ fault[secondary_api_keys[key_index]] = NoFault) =>
             all_tasks[i].hash \notin HashSet(accounts[secondary_api_keys[key_index]])]_vars

=============================================================================
